---- MODULE Spec2Model ----
(***************************************************************************)
(* Model of the ANY.RUN scrapers:                                          *)
(*   - the plain-pagination link scraper  ("Link Scarper/any_run_scraper") *)
(*   - the date-bucket link scraper       (any_run_scraper.py)             *)
(*   - the report scraper                 (scraper.py)                     *)
(* One process drives one browser.  The browser page, the operator and the *)
(* anti-automation challenge are the environment.                          *)
(***************************************************************************)
EXTENDS Integers, Sequences, FiniteSets, TLC

\* ------------------------------------------------------------------ bounds
NumPages == 3        \* list pages of the plain catalog
Today == 3           \* date-bucket mode: day number of "today"; days count down
MaxChallenges == 2   \* challenge appearances the environment may produce
MaxRestarts == 1     \* process restarts after a kill / an exit
MaxPersist == 2      \* largest pages_processed found in an initial checkpoint
MaxStale == 1        \* stale-element errors the environment may produce
MaxIoFail == 1       \* write failures the environment may produce

\* ------------------------------------------------------- program constants
MinAttempts == 5     \* max(pages_to_skip + 3, 5)
ExtraAttempts == 3
NumSelectors == 2    \* selectors_to_try in _wait_for_page_load
LoadTries == 2       \* scrape_report: first wait and one retry

Max(a, b) == IF a >= b THEN a ELSE b
Min(a, b) == IF a <= b THEN a ELSE b

\* ------------------------------------------------------------------- hrefs
\* An anchor's href, by the properties the collector tests.
Task(i) == [id |-> i, href |-> TRUE, tasks |-> TRUE, browse |-> FALSE]
Browse(i) == [id |-> i, href |-> TRUE, tasks |-> TRUE, browse |-> TRUE]
Other(i) == [id |-> i, href |-> TRUE, tasks |-> FALSE, browse |-> FALSE]
NoHref == [id |-> 0, href |-> FALSE, tasks |-> FALSE, browse |-> FALSE]

\* A date text of a row (.os__time): fmt "full" is "%d %B %Y, %H:%M",
\* "dateonly" is "%d %B %Y", "bad" is any other non-empty text,
\* "empty" is "", "none" is no text stored / element missing.
DateText(d, f) == [day |-> d, fmt |-> f]
NoDate == [day |-> 0, fmt |-> "none"]

Row(dt, ls) == [date |-> dt, links |-> ls, stale |-> FALSE]

\* ---------------------------------------------------------------- catalogs
\* Plain catalog, style 1: two rows of one fresh link each, no duplicates.
\* Style 2: links repeated within the page and across pages, plus anchors
\* that are not report links.
PlainPage(style, k) ==
    IF style = 1
    THEN << Row(NoDate, << Task(2 * k - 1) >>), Row(NoDate, << Task(2 * k) >>) >>
    ELSE << Row(NoDate, << Task(k), Browse(k) >>),
            Row(NoDate, << Task(k), Task(1), Other(k), NoHref >>) >>

\* Date catalog: today has one page, the day before is empty, the day before
\* that has two pages, and so on.
PagesOfDay(d) ==
    CASE (Today - d) % 3 = 0 -> 1
      [] (Today - d) % 3 = 1 -> 1
      [] OTHER -> 2

DayPage(fmt, d, k) ==
    IF (Today - d) % 3 = 1
    THEN << >>
    ELSE << Row(DateText(d, fmt), << Task(10 * d + k) >>),
            Row(DateText(d, fmt), << Task(10 * d), Browse(d) >>) >>

\* A plain catalog one page longer than the smallest skip budget.
LongPages == MinAttempts + 1

\* The number of list pages of the plain catalog of a fixture.
CatalogLen(c) == IF c.long THEN LongPages ELSE NumPages

\* The list the browser shows: unfiltered (day 0) or filtered to one day.
ListLen(c, day) == IF c.mode = "date" /\ day > 0 THEN PagesOfDay(day) ELSE CatalogLen(c)

ListPage(c, day, k) ==
    IF c.mode = "date"
    THEN (IF day > 0 THEN DayPage(c.dateFmt, day, k) ELSE DayPage(c.dateFmt, Today, 1))
    ELSE PlainPage(c.cat, k)

\* ----------------------------------------------------- collector (pure part)
\* _extract_links: the anchors of a row, [] when the row is stale.
ExtractLinks(row) == IF row.stale THEN << >> ELSE row.links

\* A collector that forgets the /browse test.
IsReportLinkNoBrowseTest(h) == h.href /\ h.tasks

\* href and "/tasks" in href and "/browse" not in href
IsReportLink(h) == h.href /\ h.tasks /\ ~h.browse

\* A collector that keeps only the links of the row at hand.
AddLinksOverwrite(urls, links) ==
    {h \in {links[i] : i \in DOMAIN links} : IsReportLink(h)}

RECURSIVE AddLinks(_, _)
AddLinks(urls, links) ==
    IF links = << >> THEN urls
    ELSE AddLinks(IF IsReportLink(Head(links)) THEN urls \cup {Head(links)} ELSE urls,
                  Tail(links))

\* _collect_current_page_urls: fold over rows; the date-bucket scraper also
\* remembers the date text of the last row that shows one.
RECURSIVE CollectRows(_, _, _)
CollectRows(st, rows, withDate) ==
    IF rows = << >> THEN st
    ELSE LET r == Head(rows)
             d == IF withDate /\ r.date.fmt \notin {"none", "empty"} THEN r.date ELSE st.last
         IN  CollectRows([urls |-> AddLinks(st.urls, ExtractLinks(r)), last |-> d],
                         Tail(rows), withDate)

\* A parser that finds a day in any text.
ParseDateAnyText(dt) == dt.day

\* datetime.strptime(text, "%d %B %Y, %H:%M"), else strptime(text.split(',')[0],
\* "%d %B %Y"), else nothing: 0 stands for None.
ParseDate(dt) == IF dt.fmt \in {"full", "dateonly"} THEN dt.day ELSE 0

\* -------------------------------------------------------- checkpoint file
AbsentFile == [kind |-> "absent", urls |-> {}, pages |-> 0, lastDate |-> NoDate, curDate |-> 0]
CorruptFile == [kind |-> "corrupt", urls |-> {}, pages |-> 0, lastDate |-> NoDate, curDate |-> 0]

\* A file holding valid JSON that is not an object (a list, a number), and
\* one holding an object whose cursor fields have the wrong type while its
\* link list is usable.
NotObjectFile == [kind |-> "notobject", urls |-> {}, pages |-> 0, lastDate |-> NoDate, curDate |-> 0]
WrongTypeFile == [kind |-> "wrongtype", urls |-> {Task(99)}, pages |-> 0, lastDate |-> NoDate, curDate |-> 0]

\* _load_state catches OSError and JSONDecodeError only: data.get on a
\* document that is not an object raises AttributeError out of __init__.
LoadRaises(c, f) == c.mode # "report" /\ f.kind = "notobject"

\* _load_state of both link scrapers.
LoadState(c, f) ==
    IF f.kind = "wrongtype"
    THEN [urls |-> f.urls, pages |-> 0, lastDate |-> NoDate, curDate |-> 0]
    ELSE IF f.kind # "valid"
    THEN [urls |-> {}, pages |-> 0, lastDate |-> NoDate, curDate |-> 0]
    ELSE [urls |-> f.urls,
          pages |-> IF c.mode = "plain" THEN f.pages ELSE 0,
          lastDate |-> IF c.mode = "date" /\ f.lastDate.fmt \notin {"none", "empty"}
                       THEN f.lastDate ELSE NoDate,
          curDate |-> IF c.mode = "date" /\ f.lastDate.fmt \notin {"none", "empty"}
                      THEN ParseDate(f.lastDate) ELSE 0]

\* _save_state: the document written.
StateData(c, urls, pages, lastDate, curDate) ==
    [kind |-> "valid", urls |-> urls,
     pages |-> IF c.mode = "plain" THEN pages ELSE 0,
     lastDate |-> IF c.mode = "date" THEN lastDate ELSE NoDate,
     curDate |-> IF c.mode = "date" THEN curDate ELSE 0]

\* ------------------------------------------------------------ configuration
\* A configuration is the fixture of one run: the scraper, its options and
\* the static properties of the site.
DefaultConfig ==
    [mode |-> "plain", cat |-> 1, dateFmt |-> "full", selectorSet |-> TRUE,
     smtp |-> TRUE, startPage |-> 1, pageReadable |-> TRUE,
     lastButton |-> "disabled", tableBroken |-> FALSE, chalMode |-> "never",
     failDay |-> 0, faults |-> "none", mailFails |-> FALSE,
     long |-> FALSE, cleanSheet |-> FALSE]

\* The values a field takes besides its default.  faults names the
\* transient faults the environment injects: stale elements, failing
\* writes, (link scrapers) a slow response to the next-page click, or
\* (report scraper) a failure inside one section extractor.
Variants(mode) ==
    ({"chalMode"} \X {"always", "any"})
    \cup ({"smtp"} \X {FALSE})
    \cup ({"faults"} \X {"stale", "io"})
    \cup (IF mode = "report" THEN ({"faults"} \X {"extract"})
          ELSE ({"lastButton"} \X {"absent"}) \cup ({"tableBroken"} \X {TRUE})
               \cup ({"faults"} \X {"lag"}))
    \cup (IF mode = "plain"
          THEN ({"cat"} \X {2}) \cup ({"selectorSet"} \X {FALSE})
               \cup ({"startPage"} \X (2..NumPages)) \cup ({"pageReadable"} \X {FALSE})
          ELSE {})
    \cup (IF mode = "date"
          THEN ({"dateFmt"} \X {"dateonly", "bad"}) \cup ({"failDay"} \X (1..(Today - 1)))
          ELSE {})

\* The fixtures: per scraper the default, every change of one field, and
\* one in which a challenge appears while every delivery of the alert mail
\* fails (SMTP server unreachable); for the plain scraper also a long
\* catalog whose page number cannot be read, and one in which a challenge
\* appears while bot_check_selector is empty; for the report scraper one
\* whose input sheet has no repeated and no malformed URL.
Configs ==
    UNION {LET base == [DefaultConfig EXCEPT !.mode = m]
           IN  {base} \cup {[base EXCEPT ![v[1]] = v[2]] : v \in Variants(m)}
                      \cup {[base EXCEPT !.chalMode = "any", !.mailFails = TRUE]}
                      \cup (IF m = "plain"
                            THEN {[base EXCEPT !.long = TRUE, !.pageReadable = FALSE],
                                  [base EXCEPT !.selectorSet = FALSE, !.chalMode = "any"]}
                            ELSE {})
                      \cup (IF m = "report"
                            THEN {[base EXCEPT !.cleanSheet = TRUE]}
                            ELSE {})
           : m \in {"plain", "date", "report"}}

\* ---------------------------------------------------- report scraper data
\* A report URL: task is whether /tasks/<hex id> can be extracted from it.
ReportUrl(i) == [id |-> i, task |-> TRUE]
BadUrl == [id |-> 0, task |-> FALSE]

\* The report_url column of the input sheet.
InputUrls == << ReportUrl(1), ReportUrl(2), ReportUrl(1), BadUrl >>

\* df["report_url"].tolist(): the sheet of a fixture.
Sheet(c) == IF c.cleanSheet THEN << ReportUrl(1), ReportUrl(2) >> ELSE InputUrls

\* The sections of a record (report_data) and the pcap_file entry.
Sections == {"general_info", "process_info", "ioc_details", "mitre_attack",
             "deep_analysis", "pcap"}
NoData == [x \in Sections |-> "none"]

\* Where an extractor can fail.
FaultPoints(x) ==
    CASE x = "ioc_details" -> {"open", "modal", "parse", "close"}
      [] x = "mitre_attack" -> {"body", "close"}
      [] OTHER -> {"body"}

\* What a failure inside an extractor does.  scrape_general_info,
\* scrape_process_info, scrape_deep_analysis and download_pcap wrap their
\* whole body in except Exception.  scrape_ioc_details catches only
\* TimeoutException around the wait for the modal; scrape_mitre_attack
\* catches only NoSuchElementException around the close click of its
\* finally block.  "raise" is an exception leaving the extractor.
SectionOutcome(x, point) ==
    CASE x = "ioc_details" /\ point = "modal" -> "raise"
      [] x = "ioc_details" /\ point = "close" -> "ok"
      [] x = "mitre_attack" /\ point = "close" -> "raise"
      [] OTHER -> "default"

NoFault == [sec |-> "none", point |-> "none"]

\* The overlays of a report page: the detail panel of a process, the IOC
\* modal, the MITRE matrix.
Overlays == {"panel", "ioc", "mitre"}

\* The extractors in the order scrape_report calls them.
ExtractorOrder == << "general_info", "process_info", "ioc_details", "mitre_attack",
                    "deep_analysis" >>

\* Whether the extractor at position i runs when the failure is f: an
\* exception that leaves an extractor ends the sequence.
Runs(i, f) ==
    \A j \in 1..(i - 1) :
        ~(f.sec = ExtractorOrder[j] /\ SectionOutcome(f.sec, f.point) = "raise")

\* What an extractor leaves open when the failure of the item is f.
\* scrape_process_info clicks each process and reads its detail panel; it
\* has no step that closes the panel.  scrape_ioc_details returns at once
\* when the button or the modal does not turn up, and otherwise tries the
\* close buttons and then ESC, each failure swallowed.  scrape_mitre_attack
\* clicks the close button in its finally block.
LeftOpen(x, f) ==
    CASE x = "process_info" -> IF f.sec = x THEN {} ELSE {"panel"}
      [] x = "ioc_details" -> IF f.sec = x /\ f.point = "close" THEN {"ioc"} ELSE {}
      [] x = "mitre_attack" -> IF f.sec = x /\ f.point = "close" THEN {"mitre"} ELSE {}
      [] OTHER -> {}

OverlaysLeft(f) ==
    UNION {LeftOpen(ExtractorOrder[i], f) : i \in {j \in 1..Len(ExtractorOrder) : Runs(j, f)}}

AbsentReportFile == [kind |-> "absent", urls |-> {}]
CorruptReportFile == [kind |-> "corrupt", urls |-> {}]
NotObjectReportFile == [kind |-> "notobject", urls |-> {}]

\* _load_checkpoint: any failure gives the empty set.
LoadCheckpoint(f) == IF f.kind = "valid" THEN f.urls ELSE {}

InitReportFiles(c) ==
    IF c.mode = "report"
    THEN {AbsentReportFile, CorruptReportFile, NotObjectReportFile,
          [kind |-> "valid", urls |-> {ReportUrl(2)}]}
         \cup (IF c.cleanSheet
               THEN {[kind |-> "valid", urls |-> {ReportUrl(1), ReportUrl(2)}]}
               ELSE {})
    ELSE {AbsentReportFile}

\* A run that takes the whole input list.
UnprocessedAll(urls, done) == urls

\* [url for url in urls if url not in self.processed_urls]
RECURSIVE Unprocessed(_, _)
Unprocessed(urls, done) ==
    IF urls = << >> THEN << >>
    ELSE (IF Head(urls) \in done THEN << >> ELSE << Head(urls) >>)
         \o Unprocessed(Tail(urls), done)

\* The checkpoint a run may find at construction.
InitFiles(c) ==
    IF c.mode = "report" THEN {AbsentFile} ELSE
    {AbsentFile, CorruptFile, NotObjectFile, WrongTypeFile}
    \cup (IF c.mode = "plain"
          THEN {StateData(c, {Task(99)}, n, NoDate, 0) : n \in 0..MaxPersist}
          ELSE IF c.mode = "date"
          THEN {StateData(c, {Task(99)}, 0, DateText(Today - 1, c.dateFmt), Today - 1)}
          ELSE {})

\* ------------------------------------------------------------------- state
VARIABLES
    cfg,                 \* the configuration (never changes)
    pc, stack, ret,      \* control: position, return labels, last return value
    collected,           \* _collected_urls
    pagesProcessed,      \* _pages_processed
    lastProcessedDate,   \* _last_processed_date
    currentScrapingDate, \* _current_scraping_date (0 = None)
    currentDate,         \* run(): current_date
    target, attempts, maxAttempts,  \* _skip_processed_pages locals
    botNotified,         \* _bot_notified / _bot_notification_sent
    prompted,            \* _last_bot_prompt was set in this process
    file,                \* the checkpoint file of the link scrapers
    challenge,           \* the page shows a challenge
    appearances,         \* challenge appearances so far
    stales,              \* stale-element errors so far
    ioFails,             \* write failures so far
    filterDay, livePage, \* the list the browser shows
    pendingNav,          \* a click whose re-render has not reached the list yet
    overlays,            \* report page: the overlays that are open
    lastProbe,           \* result of the latest probe: "none", "T", "F"
    probeFresh,          \* a probe was made after the latest recovery/confirmation
    alerts,              \* alert mails attempted in this process
    alertsSinceClear,    \* alert mails attempted since the latest false probe
    visited,             \* list pages scanned in this process: <<day, page>>
    loaded,              \* what _load_state produced at construction
    runs,                \* processes started after the first
    startedFresh,        \* the first process found no usable checkpoint
    readKind,            \* kind of the checkpoint document this process read
    atKill,              \* memory of the previous process when it ended
    lastAct,             \* kind of the latest step of the scraper
    gateSeen,            \* where the first true probe of this process was made
    processed,           \* ReportScraper.processed_urls
    toProcess, urlIdx,   \* run(): urls_to_process and the loop position
    wplTry, selIdx,      \* scrape_report / _wait_for_page_load loop positions
    records,             \* task ids whose <task_id>_report.json is complete
    partials,            \* task ids whose <task_id>_report.json is cut short
    reportData,          \* scrape_report: report_data of the item at hand
    failedAt,            \* the extractor failure injected for the item at hand
    rfile                \* the checkpoint file of the report scraper

ctl == <<pc, stack, ret>>
linkMem == <<collected, pagesProcessed, lastProcessedDate, currentScrapingDate,
             currentDate, target, attempts, maxAttempts>>
handlerMem == <<botNotified, prompted>>
env == <<challenge, appearances, stales, ioFails, filterDay, livePage, pendingNav, overlays>>
probeGhost == <<lastProbe, probeFresh, alerts, alertsSinceClear, gateSeen>>
runGhost == <<visited, loaded, runs, startedFresh, readKind, atKill>>
recState == <<partials, reportData, failedAt>>
report == <<processed, toProcess, urlIdx, wplTry, selIdx, records, recState, rfile>>
vars == <<cfg, ctl, linkMem, handlerMem, file, env, probeGhost, runGhost, lastAct, report>>

Terminal == {"done", "failed", "crashed", "interrupted"}

\* What a process holds in memory, for comparison after a restart.
Memory == [ended |-> pc \in Terminal, urls |-> collected, pages |-> pagesProcessed,
           day |-> currentScrapingDate, processed |-> processed]
NoMemory == [ended |-> FALSE, urls |-> {}, pages |-> 0, day |-> 0, processed |-> {}]

\* Construction of a link scraper: __init__ and _load_state.
Construct(c, f, r) ==
    LET st == LoadState(c, f)
    IN  /\ collected = st.urls
        /\ pagesProcessed = st.pages
        /\ lastProcessedDate = st.lastDate
        /\ currentScrapingDate = st.curDate
        /\ loaded = st
        /\ currentDate = 0
        /\ target = 0 /\ attempts = 0 /\ maxAttempts = 0
        /\ botNotified = FALSE /\ prompted = FALSE
        /\ pc = (IF LoadRaises(c, f) THEN "crashed"
                 ELSE IF c.mode = "report" THEN "rr_load" ELSE "run_get")
        /\ stack = << >> /\ ret = FALSE
        /\ visited = {} /\ runs = r
        /\ alerts = 0 /\ alertsSinceClear = 0
        /\ lastProbe = "none" /\ probeFresh = FALSE /\ gateSeen = "none"
        /\ lastAct = "init"

Init ==
    /\ cfg \in Configs
    /\ file \in InitFiles(cfg)
    /\ rfile \in InitReportFiles(cfg)
    /\ startedFresh = (LoadState(cfg, file) = LoadState(cfg, AbsentFile))
    /\ readKind = (IF cfg.mode = "report" THEN rfile.kind ELSE file.kind)
    /\ atKill = NoMemory
    /\ processed = LoadCheckpoint(rfile)
    /\ records = {u.id : u \in LoadCheckpoint(rfile)}
    /\ partials = {} /\ reportData = NoData /\ failedAt = NoFault
    /\ toProcess = << >> /\ urlIdx = 0 /\ wplTry = 0 /\ selIdx = 0
    /\ challenge = (cfg.chalMode = "always")
    /\ appearances = 0 /\ stales = 0 /\ ioFails = 0
    /\ filterDay = 0 /\ livePage = 1 /\ pendingNav = FALSE /\ overlays = {}
    /\ Construct(cfg, file, 0)

\* ---------------------------------------------------------- control helpers
\* Call a routine: continue at its first label, return to retLabel.
Call(entry, retLabel) ==
    /\ pc' = entry
    /\ stack' = << retLabel >> \o stack
    /\ ret' = ret

\* Return a value to the caller.
Return(val) ==
    /\ pc' = Head(stack)
    /\ stack' = Tail(stack)
    /\ ret' = val

\* Where a TimeoutException raised below the frames stk ends up.
\* _go_to_next_page and _apply_date_filter_for_day catch it around
\* _ensure_table_loaded and return False; nothing else catches it.
RECURSIVE Unwind(_)
Unwind(stk) ==
    IF stk = << >> THEN [pc |-> "failed", stack |-> << >>, ret |-> FALSE]
    ELSE IF Head(stk) \in {"gnp_after_etl", "adf_after_etl"}
         THEN [pc |-> Head(Tail(stk)), stack |-> Tail(Tail(stk)), ret |-> FALSE]
         ELSE Unwind(Tail(stk))

Raise(stk) ==
    /\ pc' = Unwind(stk).pc
    /\ stack' = Unwind(stk).stack
    /\ ret' = Unwind(stk).ret

IsLink == cfg.mode \in {"plain", "date"}

\* _get_current_page_number: 0 stands for None.
CurrentPageNumber == IF cfg.pageReadable THEN livePage ELSE 0

\* ------------------------------------------------------------- the probe
\* _is_bot_challenge_present, and the bookkeeping of what a probe saw.
\* site is the place of the call, kept for the first true probe of a
\* process of the link scrapers.
Probe(site) ==
    /\ lastProbe' = IF challenge THEN "T" ELSE "F"
    /\ probeFresh' = TRUE
    /\ gateSeen' = IF challenge /\ gateSeen = "none" /\ cfg.mode # "report"
                   THEN site ELSE gateSeen

\* The place the handler was called from.
CallSite == IF stack = << >> THEN "none" ELSE Head(stack)

\* A notifier that ignores the flag.
AlertDueAlways(notified) == TRUE

\* if not self._bot_notified: the alert is due only when the flag is down.
AlertDue(notified) == ~notified

\* A skip that stops at the first page whose number can be read.
AtOrBeyondAnyPage(page, tgt) == page # 0

\* page_from_ui is not None and page_from_ui >= target_page (0 is None)
AtOrBeyond(page, tgt) == page # 0 /\ page >= tgt

\* A notifier without the except clause around the send.
SendOutcomeUnguarded(delivered) == IF delivered THEN "sent" ELSE "raise"

\* try: send the mail / except Exception: print a warning.
SendOutcome(delivered) == IF delivered THEN "sent" ELSE "swallowed"

\* The notifier is about to send (flag down, SMTP configured) and the
\* failure of the delivery leaves it.
NotifierRaises ==
    AlertDue(botNotified) /\ cfg.smtp /\ SendOutcome(~cfg.mailFails) = "raise"

\* An exception that is not a TimeoutException leaving a challenge handler:
\* the link scrapers have no handler for it; in the report scraper every
\* call of the handler is inside scrape_report, whose except Exception
\* returns None.
Escape ==
    /\ pc' = IF cfg.mode = "report" THEN "rr_after_sr" ELSE "failed"
    /\ stack' = << >>
    /\ ret' = FALSE

\* _notify_bot_block: set the flag, then try to send the mail when SMTP is
\* configured; a failed delivery is swallowed.
NotifyBotBlock ==
    /\ botNotified' = TRUE
    /\ alerts' = IF cfg.smtp THEN alerts + 1 ELSE alerts
    /\ alertsSinceClear' = IF cfg.smtp THEN alertsSinceClear + 1 ELSE alertsSinceClear

\* ------------------------------------------- _handle_bot_challenge (plain)
\* Selector test, probe, flag reset or notification, and the 2-second test.
HandleBotChallengePlain ==
    /\ cfg.mode = "plain" /\ pc = "hbc_entry"
    /\ lastAct' = "probe"
    /\ UNCHANGED <<cfg, report, linkMem, file, env, runGhost, prompted>>
    /\ IF ~cfg.selectorSet
       THEN /\ Return(FALSE)
            /\ UNCHANGED <<botNotified, probeGhost>>
       ELSE /\ Probe(CallSite)
            /\ IF ~challenge
               THEN /\ botNotified' = FALSE
                    /\ alertsSinceClear' = 0
                    /\ alerts' = alerts
                    /\ Return(FALSE)
               ELSE /\ IF AlertDue(botNotified)
                       THEN NotifyBotBlock
                       ELSE UNCHANGED <<botNotified, alerts, alertsSinceClear>>
                    /\ IF NotifierRaises
                       THEN Escape
                       ELSE \E recent \in (IF prompted THEN BOOLEAN ELSE {FALSE}) :
                              IF recent
                              THEN Return(TRUE)
                              ELSE /\ pc' = "hbc_prompt"
                                   /\ UNCHANGED <<stack, ret>>

\* input(): the operator confirms (or stdin is closed); the handler returns
\* True without looking at the page again.
HbcPrompt ==
    /\ cfg.mode = "plain" /\ pc = "hbc_prompt"
    /\ prompted' = TRUE
    /\ probeFresh' = FALSE
    /\ lastAct' = "confirm"
    /\ Return(TRUE)
    /\ UNCHANGED <<cfg, report, linkMem, file, env, runGhost, botNotified,
                   lastProbe, alerts, alertsSinceClear, gateSeen>>

\* ------------------------------------- _handle_bot_challenge (date-bucket)
HandleBotChallengeDate ==
    /\ cfg.mode = "date" /\ pc = "hbc_entry"
    /\ lastAct' = "probe"
    /\ Probe(CallSite)
    /\ UNCHANGED <<cfg, report, linkMem, file, env, runGhost, prompted>>
    /\ IF ~challenge
       THEN /\ botNotified' = FALSE
            /\ alertsSinceClear' = 0
            /\ alerts' = alerts
            /\ Return(FALSE)
       ELSE /\ IF AlertDue(botNotified)
               THEN NotifyBotBlock
               ELSE UNCHANGED <<botNotified, alerts, alertsSinceClear>>
            /\ IF NotifierRaises
               THEN Escape
               ELSE /\ pc' = "hbc_click"
                    /\ UNCHANGED <<stack, ret>>

\* click_on_bot_challenge: one synthetic click at fixed coordinates.
HbcClick ==
    /\ cfg.mode = "date" /\ pc = "hbc_click"
    /\ pc' = "hbc_recheck"
    /\ probeFresh' = FALSE
    /\ lastAct' = "recover"
    /\ UNCHANGED <<cfg, report, stack, ret, linkMem, handlerMem, file, env, runGhost,
                   lastProbe, alerts, alertsSinceClear, gateSeen>>

\* The second probe; when still present sleep one poll interval.  Returns
\* True either way.
HbcRecheck ==
    /\ cfg.mode = "date" /\ pc = "hbc_recheck"
    /\ Probe("recheck")
    /\ alertsSinceClear' = IF challenge THEN alertsSinceClear ELSE 0
    /\ lastAct' = "probe"
    /\ Return(TRUE)
    /\ UNCHANGED <<cfg, report, linkMem, handlerMem, file, env, runGhost, alerts>>

\* --------------------------- while self._handle_bot_challenge(): pass
GateNext(g) ==
    CASE g = "run_gate" -> "run_collect"
      [] g = "gnp_gate" -> "gnp_wait"
      [] g = "spp_gate" -> "spp_read"

Gates == {"run_gate", "gnp_gate", "spp_gate"}

GateRet(g) ==
    CASE g = "run_gate" -> "ret_run_gate"
      [] g = "gnp_gate" -> "ret_gnp_gate"
      [] g = "spp_gate" -> "ret_spp_gate"

GateCall ==
    /\ IsLink /\ pc \in Gates
    /\ pc' = "hbc_entry"
    /\ stack' = << GateRet(pc) >> \o stack
    /\ ret' = ret
    /\ lastAct' = "other"
    /\ UNCHANGED <<cfg, report, linkMem, handlerMem, file, env, probeGhost, runGhost>>

\* The handler returned to a gate: frames named after the gate.
GateReturn ==
    /\ IsLink /\ pc \in {"ret_run_gate", "ret_gnp_gate", "ret_spp_gate"}
    /\ LET g == CASE pc = "ret_run_gate" -> "run_gate"
                  [] pc = "ret_gnp_gate" -> "gnp_gate"
                  [] OTHER -> "spp_gate"
       IN  pc' = IF ret THEN g ELSE GateNext(g)
    /\ lastAct' = "other"
    /\ UNCHANGED <<cfg, report, stack, ret, linkMem, handlerMem, file, env, probeGhost, runGhost>>

\* ------------------------------------------------- _ensure_table_loaded
\* wait.until(presence of the table): times out when the table never
\* appears; while a challenge is shown either outcome is possible.
\* Then _handle_bot_challenge is called on either path.
TableWaitOutcomes ==
    IF cfg.tableBroken THEN {FALSE} ELSE IF challenge THEN BOOLEAN ELSE {TRUE}

EtlWait ==
    /\ IsLink /\ pc = "etl_wait"
    /\ \E ok \in TableWaitOutcomes :
         Call("hbc_entry", IF ok THEN "etl_ok_ret" ELSE "etl_timeout_ret")
    /\ lastAct' = "wait"
    /\ UNCHANGED <<cfg, report, linkMem, handlerMem, file, env, probeGhost, runGhost>>

\* if self._handle_bot_challenge(): continue;  otherwise raise (after a
\* timeout) or return (after the table was found).
EtlAfterHandle ==
    /\ IsLink /\ pc \in {"etl_ok_ret", "etl_timeout_ret"}
    /\ IF ret
       THEN /\ pc' = "etl_wait"
            /\ UNCHANGED <<stack, ret>>
       ELSE IF pc = "etl_ok_ret"
            THEN Return(ret)
            ELSE Raise(stack)
    /\ lastAct' = "other"
    /\ UNCHANGED <<cfg, report, linkMem, handlerMem, file, env, probeGhost, runGhost>>

\* ---------------------------------------------------- _go_to_next_page
HasNextPage == livePage < ListLen(cfg, filterDay)

\* wait.until(element_to_be_clickable(next button)) and _is_button_enabled.
\* Only NoSuchElementException is caught here, and wait.until raises
\* TimeoutException, so a missing button propagates.
GnpWaitButton ==
    /\ IsLink /\ pc = "gnp_wait"
    /\ IF HasNextPage
       THEN /\ pc' = "gnp_click"
            /\ UNCHANGED <<stack, ret>>
       ELSE IF cfg.lastButton = "disabled"
            THEN Return(FALSE)
            ELSE Raise(stack)
    /\ lastAct' = "wait"
    /\ UNCHANGED <<cfg, report, linkMem, handlerMem, file, env, probeGhost, runGhost>>

\* next_button.click(): a stale element returns False; otherwise the click
\* is made and _ensure_table_loaded is awaited.  The list moves on at once,
\* or (slow response) the table of the old page stays in the document until
\* the re-render arrives.
GnpClick ==
    /\ IsLink /\ pc = "gnp_click"
    /\ \/ /\ cfg.faults = "stale" /\ stales < MaxStale
          /\ stales' = stales + 1
          /\ Return(FALSE)
          /\ lastAct' = "other"
          /\ UNCHANGED <<challenge, appearances, ioFails, filterDay, livePage, pendingNav, overlays>>
       \/ /\ \/ /\ livePage' = Min(livePage + 1, ListLen(cfg, filterDay))
                /\ UNCHANGED pendingNav
             \/ /\ cfg.faults = "lag" /\ ~pendingNav
                /\ pendingNav' = TRUE
                /\ UNCHANGED livePage
          /\ Call("etl_wait", "gnp_after_etl")
          /\ lastAct' = "click"
          /\ UNCHANGED <<challenge, appearances, ioFails, filterDay, stales, overlays>>
    /\ UNCHANGED <<cfg, report, linkMem, handlerMem, file, probeGhost, runGhost>>

\* time.sleep(0.5); return True
GnpAfterEtl ==
    /\ IsLink /\ pc = "gnp_after_etl"
    /\ Return(TRUE)
    /\ lastAct' = "other"
    /\ UNCHANGED <<cfg, report, linkMem, handlerMem, file, env, probeGhost, runGhost>>

\* ------------------------------------------------ _skip_processed_pages
\* max_attempts = max(pages_to_skip + 3, 5)
Budget(toSkip) == Max(toSkip + ExtraAttempts, MinAttempts)

\* A skip that never has anything to do.
NothingToSkipEver(n) == TRUE

\* if pages_to_skip <= 0: return True
NothingToSkip(n) == n <= 0

SkipEntry ==
    /\ cfg.mode = "plain" /\ pc = "spp_entry"
    /\ lastAct' = "read"
    /\ UNCHANGED <<cfg, report, collected, pagesProcessed, lastProcessedDate,
                   currentScrapingDate, currentDate, handlerMem, file, env,
                   probeGhost, runGhost>>
    /\ IF NothingToSkip(pagesProcessed)
       THEN /\ Return(TRUE)
            /\ UNCHANGED <<target, attempts, maxAttempts>>
       ELSE LET tgt == pagesProcessed + 1
                cur == CurrentPageNumber
                toSkip == IF cur # 0 THEN Max(tgt - cur, 0) ELSE pagesProcessed
            IN  /\ target' = tgt
                /\ IF AtOrBeyond(cur, tgt) \/ (cur # 0 /\ toSkip = 0)
                   THEN /\ Return(TRUE)
                        /\ UNCHANGED <<attempts, maxAttempts>>
                   ELSE /\ attempts' = 0
                        /\ maxAttempts' = Budget(toSkip)
                        /\ pc' = "spp_loop"
                        /\ UNCHANGED <<stack, ret>>

\* while attempts < max_attempts
SkipLoop ==
    /\ cfg.mode = "plain" /\ pc = "spp_loop"
    /\ IF attempts < maxAttempts
       THEN /\ pc' = "spp_gate"
            /\ UNCHANGED <<stack, ret>>
       ELSE Return(FALSE)
    /\ lastAct' = "other"
    /\ UNCHANGED <<cfg, report, linkMem, handlerMem, file, env, probeGhost, runGhost>>

\* page_from_ui: return True at or beyond the target, else advance.
SkipRead ==
    /\ cfg.mode = "plain" /\ pc = "spp_read"
    /\ IF AtOrBeyond(CurrentPageNumber, target)
       THEN Return(TRUE)
       ELSE Call("gnp_gate", "spp_after_gnp")
    /\ lastAct' = "read"
    /\ UNCHANGED <<cfg, report, linkMem, handlerMem, file, env, probeGhost, runGhost>>

SkipAfterNext ==
    /\ cfg.mode = "plain" /\ pc = "spp_after_gnp"
    /\ IF ~ret
       THEN /\ Return(FALSE)
            /\ UNCHANGED attempts
       ELSE /\ attempts' = attempts + 1
            /\ pc' = "spp_loop"
            /\ UNCHANGED <<stack, ret>>
    /\ lastAct' = "other"
    /\ UNCHANGED <<cfg, report, collected, pagesProcessed, lastProcessedDate,
                   currentScrapingDate, currentDate, target, maxAttempts,
                   handlerMem, file, env, probeGhost, runGhost>>

\* ------------------------------------------------------------------ run()
\* self.driver.get(self.config.base_url)
RunGet ==
    /\ IsLink /\ pc = "run_get"
    /\ filterDay' = 0
    /\ livePage' = cfg.startPage
    /\ pendingNav' = FALSE
    /\ UNCHANGED overlays
    /\ pc' = "run_auth"
    /\ lastAct' = "navigate"
    /\ UNCHANGED <<cfg, report, stack, ret, linkMem, handlerMem, file, challenge,
                   appearances, stales, ioFails, probeGhost, runGhost>>

\* _ensure_authenticated (a login through the UI when needed), then
\* _ensure_table_loaded.
EnsureAuthenticated ==
    /\ IsLink /\ pc = "run_auth"
    /\ \E login \in BOOLEAN : lastAct' = IF login THEN "click" ELSE "read"
    /\ Call("etl_wait", "run_after_etl")
    /\ UNCHANGED <<cfg, report, linkMem, handlerMem, file, env, probeGhost, runGhost>>

\* plain: _skip_processed_pages;  date-bucket: the starting day.
RunAfterEtl ==
    /\ IsLink /\ pc = "run_after_etl"
    /\ lastAct' = "other"
    /\ IF cfg.mode = "plain"
       THEN /\ Call("spp_entry", "run_after_skip")
            /\ UNCHANGED currentDate
       ELSE /\ currentDate' = IF currentScrapingDate # 0 THEN currentScrapingDate ELSE Today
            /\ pc' = "run_day"
            /\ UNCHANGED <<stack, ret>>
    /\ UNCHANGED <<cfg, report, collected, pagesProcessed, lastProcessedDate,
                   currentScrapingDate, target, attempts, maxAttempts,
                   handlerMem, file, env, probeGhost, runGhost>>

RunAfterSkip ==
    /\ cfg.mode = "plain" /\ pc = "run_after_skip"
    /\ pc' = IF ret THEN "run_gate" ELSE "run_final"
    /\ lastAct' = "other"
    /\ UNCHANGED <<cfg, report, stack, ret, linkMem, handlerMem, file, env, probeGhost, runGhost>>

\* Top of the day loop: self._current_scraping_date = current_date, then
\* _apply_date_filter_for_day.
RunDay ==
    /\ cfg.mode = "date" /\ pc = "run_day"
    /\ currentScrapingDate' = currentDate
    /\ Call("adf_filter", "run_after_adf")
    /\ lastAct' = "other"
    /\ UNCHANGED <<cfg, report, collected, pagesProcessed, lastProcessedDate, currentDate,
                   target, attempts, maxAttempts, handlerMem, file, env,
                   probeGhost, runGhost>>

\* The filter of a day can be applied when the day is above failDay.
FilterOK(day) == day > cfg.failDay

\* _apply_date_filter_for_day: filter button, From and To fields.  A wait
\* that times out returns False.
AdfFilter ==
    /\ cfg.mode = "date" /\ pc = "adf_filter"
    /\ IF FilterOK(currentDate)
       THEN /\ pc' = "adf_search"
            /\ lastAct' = "click"
            /\ UNCHANGED <<stack, ret>>
       ELSE /\ Return(FALSE)
            /\ lastAct' = "wait"
    /\ UNCHANGED <<cfg, report, linkMem, handlerMem, file, env, probeGhost, runGhost>>

\* Search button, then _ensure_table_loaded.
AdfSearch ==
    /\ cfg.mode = "date" /\ pc = "adf_search"
    /\ filterDay' = currentDate
    /\ livePage' = 1
    /\ pendingNav' = FALSE
    /\ UNCHANGED overlays
    /\ Call("etl_wait", "adf_after_etl")
    /\ lastAct' = "click"
    /\ UNCHANGED <<cfg, report, linkMem, handlerMem, file, challenge, appearances,
                   stales, ioFails, probeGhost, runGhost>>

AdfAfterEtl ==
    /\ cfg.mode = "date" /\ pc = "adf_after_etl"
    /\ Return(TRUE)
    /\ lastAct' = "other"
    /\ UNCHANGED <<cfg, report, linkMem, handlerMem, file, env, probeGhost, runGhost>>

RunAfterAdf ==
    /\ cfg.mode = "date" /\ pc = "run_after_adf"
    /\ pc' = IF ret THEN "run_gate" ELSE "run_final"
    /\ lastAct' = "other"
    /\ UNCHANGED <<cfg, report, stack, ret, linkMem, handlerMem, file, env, probeGhost, runGhost>>

\* _collect_current_page_urls, and in plain mode self._pages_processed += 1.
CollectCurrentPageUrls ==
    /\ IsLink /\ pc = "run_collect"
    /\ LET st == CollectRows([urls |-> collected, last |-> lastProcessedDate],
                             ListPage(cfg, filterDay, livePage), cfg.mode = "date")
       IN  /\ collected' = st.urls
           /\ lastProcessedDate' = st.last
    /\ pagesProcessed' = IF cfg.mode = "plain" THEN pagesProcessed + 1 ELSE pagesProcessed
    /\ visited' = visited \cup {<<filterDay, livePage>>}
    /\ pc' = "run_persist"
    /\ lastAct' = "scan"
    /\ UNCHANGED <<cfg, report, stack, ret, currentScrapingDate, currentDate, target,
                   attempts, maxAttempts, handlerMem, file, env, probeGhost,
                   loaded, runs, startedFresh, readKind, atKill>>

\* _persist_progress: _save_results (an error of the sheet writer is not
\* caught), then _save_state opens the state file with "w", which creates
\* or truncates it (OSError is caught and the run goes on).
PersistProgress ==
    /\ IsLink /\ pc = "run_persist"
    /\ lastAct' = "save"
    /\ \/ /\ file' = CorruptFile
          /\ pc' = "run_dump"
          /\ UNCHANGED <<stack, ret, ioFails>>
       \/ /\ cfg.faults = "io" /\ ioFails < MaxIoFail
          /\ ioFails' = ioFails + 1
          /\ file' = file
          /\ \/ Raise(stack)
             \/ Call("gnp_gate", "run_after_gnp")
    /\ UNCHANGED <<cfg, report, linkMem, handlerMem, challenge, appearances, stales,
                   filterDay, livePage, pendingNav, overlays, probeGhost, runGhost>>

\* json.dump(state_data, handle) and the close of the file (a failing write
\* is caught and leaves the document cut short).  Then the page delay and
\* _go_to_next_page.
SaveDump ==
    /\ IsLink /\ pc = "run_dump"
    /\ lastAct' = "save"
    /\ Call("gnp_gate", "run_after_gnp")
    /\ \/ /\ file' = StateData(cfg, collected, pagesProcessed, lastProcessedDate,
                               currentScrapingDate)
          /\ UNCHANGED ioFails
       \/ /\ cfg.faults = "io" /\ ioFails < MaxIoFail
          /\ ioFails' = ioFails + 1
          /\ file' = file
    /\ UNCHANGED <<cfg, report, linkMem, handlerMem, challenge, appearances, stales,
                   filterDay, livePage, pendingNav, overlays, probeGhost, runGhost>>

\* The earliest day the model follows the date-bucket run to.
MinDay == 1

\* After _go_to_next_page: next page, or (plain) wrap up, or (date-bucket)
\* the previous day.
RunAfterNext ==
    /\ IsLink /\ pc = "run_after_gnp"
    /\ lastAct' = "other"
    /\ IF ret
       THEN /\ pc' = "run_gate"
            /\ UNCHANGED currentDate
       ELSE IF cfg.mode = "plain"
            THEN /\ pc' = "run_final"
                 /\ UNCHANGED currentDate
            ELSE /\ currentDate > MinDay
                 /\ currentDate' = currentDate - 1
                 /\ pc' = "run_day"
    /\ UNCHANGED <<cfg, report, stack, ret, collected, pagesProcessed, lastProcessedDate,
                   currentScrapingDate, target, attempts, maxAttempts,
                   handlerMem, file, env, probeGhost, runGhost>>

\* _save_results(final=True); _clear_state(); return urls
RunFinal ==
    /\ IsLink /\ pc = "run_final"
    /\ lastAct' = "save"
    /\ \/ /\ file' = AbsentFile
          /\ pc' = "done"
          /\ UNCHANGED ioFails
       \/ /\ cfg.faults = "io" /\ ioFails < MaxIoFail
          /\ ioFails' = ioFails + 1
          /\ file' = file
          /\ pc' \in {"done", "failed"}
    /\ UNCHANGED <<cfg, report, stack, ret, linkMem, handlerMem, challenge, appearances,
                   stales, filterDay, livePage, pendingNav, overlays, probeGhost, runGhost>>

\* ===================================================== report scraper
IsReport == cfg.mode = "report"

\* _notify_bot_challenge: nothing when already sent or SMTP is not
\* configured; otherwise try to send, and set the flag whatever the outcome.
NotifyBotChallenge ==
    IF ~AlertDue(botNotified) \/ ~cfg.smtp
    THEN UNCHANGED <<botNotified, alerts, alertsSinceClear>>
    ELSE /\ botNotified' = TRUE
         /\ alerts' = alerts + 1
         /\ alertsSinceClear' = alertsSinceClear + 1

\* _check_for_bot_challenge, up to the 2-second test.
CheckForBotChallenge ==
    /\ IsReport /\ pc = "cbc_entry"
    /\ lastAct' = "probe"
    /\ Probe(CallSite)
    /\ UNCHANGED <<cfg, report, linkMem, file, env, runGhost, prompted>>
    /\ IF ~challenge
       THEN /\ botNotified' = FALSE
            /\ alertsSinceClear' = 0
            /\ alerts' = alerts
            /\ Return(FALSE)
       ELSE /\ NotifyBotChallenge
            /\ IF NotifierRaises
               THEN Escape
               ELSE \E recent \in (IF prompted THEN BOOLEAN ELSE {FALSE}) :
                      IF recent
                      THEN Return(TRUE)
                      ELSE /\ pc' = "cbc_click"
                           /\ UNCHANGED <<stack, ret>>

\* time.sleep(2); self.click_on_bot_challenge()
CbcClick ==
    /\ IsReport /\ pc = "cbc_click"
    /\ pc' = "cbc_recheck"
    /\ probeFresh' = FALSE
    /\ lastAct' = "recover"
    /\ UNCHANGED <<cfg, report, stack, ret, linkMem, handlerMem, file, env, runGhost,
                   lastProbe, alerts, alertsSinceClear, gateSeen>>

\* The re-check after the click: still present -> notify and prompt;
\* cleared -> set the prompt time and return True.
CbcRecheck ==
    /\ IsReport /\ pc = "cbc_recheck"
    /\ Probe("recheck")
    /\ lastAct' = "probe"
    /\ UNCHANGED <<cfg, report, linkMem, file, env, runGhost>>
    /\ IF challenge
       THEN /\ NotifyBotChallenge
            /\ IF NotifierRaises
               THEN Escape
               ELSE /\ pc' = "cbc_prompt"
                    /\ UNCHANGED <<stack, ret>>
            /\ UNCHANGED prompted
       ELSE /\ alertsSinceClear' = 0
            /\ prompted' = TRUE
            /\ Return(TRUE)
            /\ UNCHANGED <<botNotified, alerts>>

\* input(): the operator confirms (or stdin is closed); return True.
CbcPrompt ==
    /\ IsReport /\ pc = "cbc_prompt"
    /\ prompted' = TRUE
    /\ probeFresh' = FALSE
    /\ lastAct' = "confirm"
    /\ Return(TRUE)
    /\ UNCHANGED <<cfg, report, linkMem, file, env, runGhost, botNotified,
                   lastProbe, alerts, alertsSinceClear, gateSeen>>

\* run(): read the sheet, drop processed URLs, start the browser and log in.
RrLoad ==
    /\ IsReport /\ pc = "rr_load"
    /\ \/ /\ pc' = "done"
          /\ lastAct' = "other"
          /\ UNCHANGED <<toProcess, urlIdx>>
       \/ LET todo == Unprocessed(Sheet(cfg), processed)
          IN  /\ toProcess' = todo
              /\ urlIdx' = 1
              /\ IF todo = << >>
                 THEN pc' = "done" /\ lastAct' = "other"
                 ELSE pc' = "rr_loop" /\ lastAct' = "navigate"
    /\ UNCHANGED <<cfg, stack, ret, linkMem, handlerMem, file, env, probeGhost,
                   runGhost, processed, wplTry, selIdx, records, recState, rfile>>

\* for i, url in enumerate(urls_to_process, 1)
RrLoop ==
    /\ IsReport /\ pc = "rr_loop"
    /\ IF urlIdx <= Len(toProcess)
       THEN Call("sr_start", "rr_after_sr")
       ELSE /\ pc' = "done"
            /\ UNCHANGED <<stack, ret>>
    /\ lastAct' = "other"
    /\ UNCHANGED <<cfg, report, linkMem, handlerMem, file, env, probeGhost, runGhost>>

\* scrape_report: _extract_task_id
SrStart ==
    /\ IsReport /\ pc = "sr_start"
    /\ IF toProcess[urlIdx].task
       THEN /\ pc' = "sr_get"
            /\ UNCHANGED <<stack, ret>>
       ELSE Return(FALSE)
    /\ lastAct' = "other"
    /\ UNCHANGED <<cfg, report, linkMem, handlerMem, file, env, probeGhost, runGhost>>

\* self.driver.get(url); self._handle_login_if_needed(url);
\* self._check_for_bot_challenge().  A failing navigation is caught by
\* scrape_report and the item is skipped.
SrGet ==
    /\ IsReport /\ pc = "sr_get"
    /\ lastAct' = "navigate"
    /\ \/ /\ Call("cbc_entry", "sr_after_cbc")
          /\ overlays' = {}
       \/ /\ Return(FALSE)
          /\ UNCHANGED overlays
    /\ UNCHANGED <<cfg, report, linkMem, handlerMem, file, challenge, appearances, stales,
                   ioFails, filterDay, livePage, pendingNav, probeGhost, runGhost>>

\* The return value of the check is dropped; _wait_for_page_load follows.
SrAfterCbc ==
    /\ IsReport /\ pc = "sr_after_cbc"
    /\ wplTry' = 1
    /\ Call("wpl_start", "sr_after_wpl")
    /\ lastAct' = "other"
    /\ UNCHANGED <<cfg, linkMem, handlerMem, file, env, probeGhost, runGhost,
                   processed, toProcess, urlIdx, selIdx, records, recState, rfile>>

\* _wait_for_page_load: sleep, check, then the selector loop.
WplStart ==
    /\ IsReport /\ pc = "wpl_start"
    /\ selIdx' = 1
    /\ Call("cbc_entry", "wpl_sel")
    /\ lastAct' = "other"
    /\ UNCHANGED <<cfg, linkMem, handlerMem, file, env, probeGhost, runGhost,
                   processed, toProcess, urlIdx, wplTry, records, recState, rfile>>

\* wait.until(presence of the selector): found or timed out; a check
\* follows either way.
WplSel ==
    /\ IsReport /\ pc = "wpl_sel"
    /\ IF selIdx > NumSelectors
       THEN Call("cbc_entry", "wpl_final")
       ELSE \E found \in BOOLEAN :
              Call("cbc_entry", IF found THEN "wpl_body" ELSE "wpl_next")
    /\ lastAct' = "wait"
    /\ UNCHANGED <<cfg, report, linkMem, handlerMem, file, env, probeGhost, runGhost>>

\* len(body_text) > 100 -> return True, else the next selector.
WplBody ==
    /\ IsReport /\ pc = "wpl_body"
    /\ \E long \in BOOLEAN :
         IF long THEN Return(TRUE)
         ELSE /\ pc' = "wpl_next"
              /\ UNCHANGED <<stack, ret>>
    /\ lastAct' = "read"
    /\ UNCHANGED <<cfg, report, linkMem, handlerMem, file, env, probeGhost, runGhost>>

WplNext ==
    /\ IsReport /\ pc = "wpl_next"
    /\ selIdx' = selIdx + 1
    /\ pc' = "wpl_sel"
    /\ lastAct' = "other"
    /\ UNCHANGED <<cfg, stack, ret, linkMem, handlerMem, file, env, probeGhost,
                   runGhost, processed, toProcess, urlIdx, wplTry, records, recState, rfile>>

\* After the extra 10 seconds: len(body.text) > 50 -> True, else False.
WplFinal ==
    /\ IsReport /\ pc = "wpl_final"
    /\ \E partial \in BOOLEAN : Return(partial)
    /\ lastAct' = "read"
    /\ UNCHANGED <<cfg, report, linkMem, handlerMem, file, env, probeGhost, runGhost>>

\* scrape_report: one retry of the page wait, then the item is skipped.
SrAfterWpl ==
    /\ IsReport /\ pc = "sr_after_wpl"
    /\ lastAct' = "other"
    /\ IF ret
       THEN /\ pc' = "sr_extract"
            /\ UNCHANGED <<stack, ret, wplTry>>
       ELSE IF wplTry < LoadTries
            THEN /\ wplTry' = wplTry + 1
                 /\ Call("wpl_start", "sr_after_wpl")
            ELSE /\ Return(FALSE)
                 /\ UNCHANGED wplTry
    /\ UNCHANGED <<cfg, linkMem, handlerMem, file, env, probeGhost, runGhost,
                   processed, toProcess, urlIdx, selIdx, records, recState, rfile>>

\* The extractor failures a fixture injects: at most one per item.
ExtractFaults ==
    {NoFault} \cup (IF cfg.faults = "extract"
                    THEN UNION {{[sec |-> x, point |-> p] : p \in FaultPoints(x)}
                                : x \in Sections \ {"pcap"}}
                    ELSE {})

\* The section extractors, called in turn to build report_data: they click
\* the page's controls (IOC modal, MITRE matrix, process details,
\* deep-analysis tabs).  An exception that leaves an extractor is caught by
\* scrape_report's except Exception, which returns None.
SrExtract ==
    /\ IsReport /\ pc = "sr_extract"
    /\ lastAct' = "click"
    /\ \E f \in ExtractFaults :
         /\ failedAt' = f
         /\ overlays' = overlays \cup OverlaysLeft(f)
         /\ IF f # NoFault /\ SectionOutcome(f.sec, f.point) = "raise"
            THEN /\ reportData' = NoData
                 /\ Return(FALSE)
            ELSE /\ reportData' = [x \in Sections |->
                                     IF x = "pcap" THEN "none"
                                     ELSE IF x = f.sec
                                     THEN SectionOutcome(f.sec, f.point) ELSE "ok"]
                 /\ pc' = "sr_pcap"
                 /\ UNCHANGED <<stack, ret>>
    /\ UNCHANGED <<cfg, linkMem, handlerMem, file, challenge, appearances, stales,
                   ioFails, filterDay, livePage, pendingNav, probeGhost, runGhost,
                   processed, toProcess, urlIdx, wplTry, selIdx, records, partials, rfile>>

\* download_pcap: clicks on the PCAP tab and button, then a check.  Every
\* failure is caught and leaves the record without a pcap_file entry.
SrPcap ==
    /\ IsReport /\ pc = "sr_pcap"
    /\ lastAct' = "click"
    /\ \/ /\ reportData' = [reportData EXCEPT !["pcap"] = "ok"]
          /\ failedAt' = failedAt
          /\ Call("cbc_entry", "sr_write")
       \/ /\ cfg.faults = "extract" /\ failedAt = NoFault
          /\ reportData' = [reportData EXCEPT !["pcap"] = SectionOutcome("pcap", "body")]
          /\ failedAt' = [sec |-> "pcap", point |-> "body"]
          /\ pc' = "sr_write"
          /\ UNCHANGED <<stack, ret>>
    /\ UNCHANGED <<cfg, linkMem, handlerMem, file, env, probeGhost, runGhost,
                   processed, toProcess, urlIdx, wplTry, selIdx, records, partials, rfile>>

\* with open(report_file, "w"): the record file is created or truncated.
\* An error is caught by scrape_report and the item is skipped.
SrWrite ==
    /\ IsReport /\ pc = "sr_write"
    /\ lastAct' = "save"
    /\ \/ /\ partials' = partials \cup {toProcess[urlIdx].id}
          /\ records' = records \ {toProcess[urlIdx].id}
          /\ pc' = "sr_dump"
          /\ UNCHANGED <<stack, ret, ioFails>>
       \/ /\ cfg.faults = "io" /\ ioFails < MaxIoFail
          /\ ioFails' = ioFails + 1
          /\ Return(FALSE)
          /\ UNCHANGED <<records, partials>>
    /\ UNCHANGED <<cfg, linkMem, handlerMem, file, challenge, appearances, stales,
                   filterDay, livePage, pendingNav, overlays, probeGhost, runGhost,
                   processed, toProcess, urlIdx, wplTry, selIdx, reportData, failedAt, rfile>>

\* json.dump(report_data, f) and the close of the file; return report_data.
\* A failing write is caught and leaves the record cut short.
SrDump ==
    /\ IsReport /\ pc = "sr_dump"
    /\ lastAct' = "save"
    /\ \/ /\ records' = records \cup {toProcess[urlIdx].id}
          /\ partials' = partials \ {toProcess[urlIdx].id}
          /\ Return(TRUE)
          /\ UNCHANGED ioFails
       \/ /\ cfg.faults = "io" /\ ioFails < MaxIoFail
          /\ ioFails' = ioFails + 1
          /\ Return(FALSE)
          /\ UNCHANGED <<records, partials>>
    /\ UNCHANGED <<cfg, linkMem, handlerMem, file, challenge, appearances, stales,
                   filterDay, livePage, pendingNav, overlays, probeGhost, runGhost,
                   processed, toProcess, urlIdx, wplTry, selIdx, reportData, failedAt, rfile>>

\* A loop that counts every item as scraped.
SucceededAlways(result) == TRUE

\* if result: scrape_report returns the record, or None after a failure.
Succeeded(result) == result

\* if result: self.processed_urls.add(url); self._save_checkpoint(), which
\* opens the checkpoint with "w" (the file is created or truncated).  Any
\* error of the save is caught.
RrAfterSr ==
    /\ IsReport /\ pc = "rr_after_sr"
    /\ lastAct' = "other"
    /\ reportData' = NoData /\ failedAt' = NoFault
    /\ IF Succeeded(ret)
       THEN /\ processed' = processed \cup {toProcess[urlIdx]}
            /\ \/ /\ rfile' = CorruptReportFile
                  /\ pc' = "rr_dump"
                  /\ UNCHANGED <<ioFails, urlIdx>>
               \/ /\ cfg.faults = "io" /\ ioFails < MaxIoFail
                  /\ ioFails' = ioFails + 1
                  /\ rfile' = rfile
                  /\ urlIdx' = urlIdx + 1
                  /\ pc' = "rr_loop"
       ELSE /\ urlIdx' = urlIdx + 1
            /\ pc' = "rr_loop"
            /\ UNCHANGED <<processed, rfile, ioFails>>
    /\ UNCHANGED <<cfg, stack, ret, linkMem, handlerMem, file, challenge,
                   appearances, stales, filterDay, livePage, pendingNav, overlays, probeGhost,
                   runGhost, toProcess, wplTry, selIdx, records, partials>>

\* json.dump({"processed_urls": ...}, f): the checkpoint is complete.  A
\* failing write is caught and leaves the checkpoint cut short.
RrDump ==
    /\ IsReport /\ pc = "rr_dump"
    /\ lastAct' = "save"
    /\ urlIdx' = urlIdx + 1
    /\ pc' = "rr_loop"
    /\ \/ /\ rfile' = [kind |-> "valid", urls |-> processed]
          /\ UNCHANGED ioFails
       \/ /\ cfg.faults = "io" /\ ioFails < MaxIoFail
          /\ ioFails' = ioFails + 1
          /\ rfile' = rfile
    /\ UNCHANGED <<cfg, stack, ret, linkMem, handlerMem, file, challenge,
                   appearances, stales, filterDay, livePage, pendingNav, overlays, probeGhost,
                   runGhost, processed, toProcess, wplTry, selIdx, records, recState>>

\* ------------------------------------------------------------- environment
\* The process ends (killed at any point, or after its exit) and a new one
\* is constructed from the checkpoint file.  Record files stay on disk.
\* For the report scraper kills are followed in the challenge-free fixtures.
Restart ==
    /\ runs < MaxRestarts /\ pc \notin {"run_get", "rr_load", "crashed"}
    /\ IsReport => cfg.chalMode = "never"
    /\ LET st == LoadState(cfg, file)
       IN  /\ collected' = st.urls
           /\ pagesProcessed' = st.pages
           /\ lastProcessedDate' = st.lastDate
           /\ currentScrapingDate' = st.curDate
           /\ loaded' = st
    /\ processed' = LoadCheckpoint(rfile)
    /\ toProcess' = << >> /\ urlIdx' = 0 /\ wplTry' = 0 /\ selIdx' = 0
    /\ currentDate' = 0
    /\ target' = 0 /\ attempts' = 0 /\ maxAttempts' = 0
    /\ botNotified' = FALSE /\ prompted' = FALSE
    /\ pc' = (IF LoadRaises(cfg, file) THEN "crashed"
              ELSE IF IsReport THEN "rr_load" ELSE "run_get")
    /\ stack' = << >> /\ ret' = FALSE
    /\ visited' = {} /\ runs' = runs + 1
    /\ readKind' = (IF IsReport THEN rfile.kind ELSE file.kind)
    /\ atKill' = (IF pc = "interrupted" THEN atKill ELSE Memory)
    /\ alerts' = 0 /\ alertsSinceClear' = 0
    /\ lastProbe' = "none" /\ probeFresh' = FALSE /\ gateSeen' = "none"
    /\ lastAct' = "init"
    /\ reportData' = NoData /\ failedAt' = NoFault
    /\ UNCHANGED <<cfg, records, partials, rfile, file, env, startedFresh>>

\* KeyboardInterrupt at any point of a run.  The link scrapers leave
\* through `with AnyRunScraper(config) as scraper` (__exit__ -> shutdown);
\* the report scraper through except KeyboardInterrupt / finally
\* _close_driver.  Neither path saves anything: the files stay as they
\* are, and the memory of the process is gone with it (atKill keeps what
\* it held).
Interrupt ==
    /\ pc \notin Terminal
    /\ pc' = "interrupted" /\ stack' = << >> /\ ret' = FALSE
    /\ atKill' = Memory
    /\ collected' = {} /\ pagesProcessed' = 0 /\ lastProcessedDate' = NoDate
    /\ currentScrapingDate' = 0 /\ currentDate' = 0
    /\ target' = 0 /\ attempts' = 0 /\ maxAttempts' = 0
    /\ botNotified' = FALSE /\ prompted' = FALSE
    /\ processed' = {}
    /\ toProcess' = << >> /\ urlIdx' = 0 /\ wplTry' = 0 /\ selIdx' = 0
    /\ visited' = {}
    /\ alerts' = 0 /\ alertsSinceClear' = 0
    /\ lastProbe' = "none" /\ probeFresh' = FALSE /\ gateSeen' = "none"
    /\ lastAct' = "other"
    /\ reportData' = NoData /\ failedAt' = NoFault
    /\ UNCHANGED <<cfg, records, partials, rfile, file, env, loaded, runs, startedFresh, readKind>>

\* The steps that look at the page's challenge state.  The page changes
\* at any time, but a change shows only when one of these steps comes next,
\* so the environment moves there.
ReadsChallenge == {"hbc_entry", "hbc_recheck", "cbc_entry", "cbc_recheck", "etl_wait"}

\* The response to an earlier click arrives: the list shows the next page.
Rerender ==
    /\ pendingNav /\ pc \notin Terminal
    /\ pendingNav' = FALSE
    /\ livePage' = Min(livePage + 1, ListLen(cfg, filterDay))
    /\ UNCHANGED <<cfg, report, ctl, linkMem, handlerMem, file, challenge, appearances,
                   stales, ioFails, filterDay, overlays, probeGhost, runGhost, lastAct>>

\* A challenge appears on the page.
ChallengeAppears ==
    /\ cfg.chalMode = "any" /\ ~challenge /\ appearances < MaxChallenges
    /\ pc \in ReadsChallenge
    /\ challenge' = TRUE
    /\ appearances' = appearances + 1
    /\ UNCHANGED <<cfg, report, ctl, linkMem, handlerMem, file, stales, ioFails,
                   filterDay, livePage, pendingNav, overlays, probeGhost, runGhost, lastAct>>

\* The challenge goes away (solved by the operator or by the click).
ChallengeClears ==
    /\ cfg.chalMode = "any" /\ challenge
    /\ pc \in ReadsChallenge
    /\ challenge' = FALSE
    /\ UNCHANGED <<cfg, report, ctl, linkMem, handlerMem, file, appearances, stales,
                   ioFails, filterDay, livePage, pendingNav, overlays, probeGhost, runGhost, lastAct>>

\* ------------------------------------------------------------ specification
Next ==
    \/ HandleBotChallengePlain \/ HbcPrompt
    \/ HandleBotChallengeDate \/ HbcClick \/ HbcRecheck
    \/ GateCall \/ GateReturn
    \/ EtlWait \/ EtlAfterHandle
    \/ GnpWaitButton \/ GnpClick \/ GnpAfterEtl \/ Rerender
    \/ SkipEntry \/ SkipLoop \/ SkipRead \/ SkipAfterNext
    \/ RunGet \/ EnsureAuthenticated \/ RunAfterEtl \/ RunAfterSkip
    \/ RunDay \/ AdfFilter \/ AdfSearch \/ AdfAfterEtl \/ RunAfterAdf
    \/ CollectCurrentPageUrls \/ PersistProgress \/ SaveDump \/ RunAfterNext \/ RunFinal
    \/ CheckForBotChallenge \/ CbcClick \/ CbcRecheck \/ CbcPrompt
    \/ RrLoad \/ RrLoop \/ SrStart \/ SrGet \/ SrAfterCbc
    \/ WplStart \/ WplSel \/ WplBody \/ WplNext \/ WplFinal \/ SrAfterWpl
    \/ SrExtract \/ SrPcap \/ SrWrite \/ SrDump \/ RrAfterSr \/ RrDump
    \/ Restart \/ Interrupt \/ ChallengeAppears \/ ChallengeClears

Spec == Init /\ [][Next]_vars

TypeOK ==
    /\ cfg \in Configs
    /\ ret \in BOOLEAN
    /\ lastProbe \in {"none", "T", "F"}
    /\ livePage \in 1..Max(NumPages, LongPages)
    /\ pendingNav \in BOOLEAN
    /\ overlays \subseteq Overlays
    /\ file.kind \in {"absent", "corrupt", "notobject", "wrongtype", "valid"}
    /\ rfile.kind \in {"absent", "corrupt", "notobject", "valid"}
    /\ urlIdx \in 0..(Len(InputUrls) + 1)
    /\ readKind \in {"absent", "corrupt", "notobject", "wrongtype", "valid"}
    /\ partials \subseteq {u.id : u \in {InputUrls[i] : i \in DOMAIN InputUrls}}
    /\ reportData \in [Sections -> {"none", "ok", "default"}]
    /\ failedAt = NoFault \/ failedAt.point \in FaultPoints(failedAt.sec)

\* ================================================================ claims
\* ------------------------------------------------- terms of the statements
\* A canonical report link: an anchor with an href under /tasks that is not
\* a /browse link.
Canonical(h) == h.href /\ h.tasks /\ ~h.browse

\* The anchors a list page shows, and the canonical ones among them.
PageLinks(c, d, k) ==
    LET rows == ListPage(c, d, k)
    IN  UNION {{rows[i].links[j] : j \in DOMAIN rows[i].links} : i \in DOMAIN rows}

CanonicalLinks(c, d, k) == {h \in PageLinks(c, d, k) : Canonical(h)}

\* What an undisturbed traversal of the static catalog collects: the plain
\* catalog from the page the site opens on to the last page; the date
\* catalog from today down to the first day whose filter cannot be applied.
FullTraversal(c) ==
    IF c.mode = "plain"
    THEN UNION {CanonicalLinks(c, 0, k) : k \in c.startPage..CatalogLen(c)}
    ELSE UNION {UNION {CanonicalLinks(c, d, k) : k \in 1..PagesOfDay(d)}
                : d \in (c.failDay + 1)..Today}

\* Actions on the page that the gating rule forbids while a challenge is up.
PageInteractions == {"navigate", "click", "scan"}

\* Positions at which a challenge handler has just handed control back for
\* the caller to go on with the page.
HandBackLabels ==
    {"run_collect", "gnp_wait", "spp_read",
     "sr_after_cbc", "wpl_sel", "wpl_body", "wpl_next", "wpl_final", "sr_write"}

\* C1: in every scraper no page interaction (navigation, filter, link
\* extraction, pagination click, item scrape) is issued after a probe has
\* reported the challenge present and before a later probe reported it
\* absent.
C1_NoInteractionWhileChallenged ==
    lastAct \in PageInteractions => lastProbe # "T"

\* C2: when a challenge handler hands control back, the challenge is absent
\* according to a probe made after the last recovery action or operator
\* confirmation.
C2_HandBackOnlyWhenProbedClear ==
    pc \in HandBackLabels => (lastProbe = "F" /\ probeFresh)

\* C3: while every probe reports the challenge present, the run never scans
\* a page, never paginates, never scrapes an item, never reaches Done and
\* never terminates with an error.
C3_BlockedWhileAlwaysPresent ==
    cfg.chalMode = "always" =>
        /\ pc \notin {"run_collect", "run_persist", "gnp_wait", "gnp_click",
                      "run_final", "sr_extract", "sr_pcap", "sr_write", "failed"}
        /\ visited = {}
        /\ IsLink => pc # "done"

\* C4: with alerting configured, every probe that reports the challenge
\* present leaves exactly one alert sent for the occurrence it belongs to
\* (an occurrence ends with a probe that reports the challenge absent), and
\* the notified flag goes down only in a step whose probe reported absent.
C4_OneAlertPerOccurrence ==
    /\ [](alertsSinceClear <= 1)
    /\ []((cfg.smtp /\ lastAct = "probe" /\ lastProbe = "T") => alertsSinceClear = 1)
    /\ [][(botNotified /\ ~botNotified' /\ runs' = runs) => lastProbe' = "F"]_vars

C8_RestartIdempotent ==
    (/\ IsLink /\ pc = "done" /\ startedFresh
     /\ cfg.chalMode = "never" /\ cfg.faults = "none")
    => collected = FullTraversal(cfg)

\* C9: a resumed plain-pagination run never scans a page whose number is
\* below the resume target (persisted cursor + 1).
C9_NoScanBelowTarget ==
    cfg.mode = "plain" => \A v \in visited : v[2] >= loaded.pages + 1

C9_Witness ==
    /\ cfg.mode = "plain" /\ loaded.pages > 0 /\ attempts > 0
    /\ cfg.startPage <= loaded.pages /\ visited # {}

\* C10: after a resume the cursor recorded at each checkpoint equals the
\* live page number of the page just scanned, also when the site opened on
\* a page beyond the resume target.
C10_CursorIsLivePage ==
    (/\ cfg.mode = "plain" /\ cfg.pageReadable /\ loaded.pages > 0
     /\ pc = "run_persist")
    => pagesProcessed = livePage

\* C11: checkpoint writes are atomic: when the process is killed while a
\* save of the checkpoint is under way, the next load reads a complete
\* document (the previous or the new state), never a document cut short.
C11_SaveAtomic ==
    [][(pc \in {"run_dump", "rr_dump"} /\ runs' = runs + 1)
       => readKind' = "valid"]_vars

\* C12: a save follows every completed unit of progress, so the state a new
\* process recovers after a kill lacks at most one unit of what the killed
\* process held: at most one scanned page (its counter increment and its
\* links), or at most one processed item.
C12_KillLosesAtMostOneUnit ==
    (lastAct = "init" /\ runs > 0 /\ ~atKill.ended /\ cfg.faults = "none"
     /\ pc # "crashed")
    => IF IsReport
       THEN Cardinality(atKill.processed \ processed) <= 1
       ELSE /\ atKill.pages - pagesProcessed <= 1
            /\ \E d \in 0..Today, k \in 1..CatalogLen(cfg) :
                 (atKill.urls \ collected) \subseteq PageLinks(cfg, d, k)

\* C13: load never fails the run: whatever the checkpoint file holds
\* (unreadable, not valid JSON, valid JSON that is not an object, fields of
\* the wrong type), construction of the scraper completes without raising.
C13_LoadNeverRaises == pc # "crashed"

\* C14: the checkpoint round-trips: right after a save, a load of the
\* written document in a fresh process yields the collected identifiers and
\* the cursor of the saving process (pages_processed in plain mode, the
\* day being scanned in date-bucket mode).
C14_RoundTrip ==
    (IsLink /\ lastAct = "save" /\ pc = "gnp_gate" /\ cfg.faults # "io")
    => LET st == LoadState(cfg, file)
       IN  /\ st.urls = collected
           /\ cfg.mode = "plain" => st.pages = pagesProcessed
           /\ cfg.mode = "date" => st.curDate = currentScrapingDate

\* C15: an item enters the processed set only after its record file has
\* been completely written: in every state each URL of processed_urls has
\* a complete record file.
C15_ProcessedHaveRecords ==
    IsReport => \A u \in processed : u.id \in records

\* The record files on disk, complete or cut short.
RecordFiles == records \cup partials

\* C16: a record file exists for an item exactly when the item is in the
\* processed set of the checkpoint, at every point where a run has ended
\* or a new process has just been constructed after a kill.
C16_RecordIffProcessed ==
    (IsReport /\ cfg.faults = "none"
     /\ (pc \in {"done", "interrupted"} \/ (lastAct = "init" /\ runs > 0)))
    => RecordFiles = {u.id : u \in LoadCheckpoint(rfile)}

\* C17: extraction isolation: when one section extractor fails at any
\* point, scrape_report still returns the record, the record file is
\* written, every other section holds its payload and the failed section
\* its default (or its payload, when only the closing of its overlay
\* failed).
C17_ExtractionIsolation ==
    (IsReport /\ pc = "rr_after_sr" /\ failedAt # NoFault)
    => /\ ret
       /\ toProcess[urlIdx].id \in records
       /\ \A x \in Sections \ {failedAt.sec} : reportData[x] = "ok"
       /\ reportData[failedAt.sec] \in {"default", "ok"}

\* C18: in date-bucket mode, when the traversal stops because the date
\* filter of the day at hand cannot be applied, the run does not take the
\* normal-completion path (final save, checkpoint cleared, Done), and the
\* checkpoint with the cursor of that day stays on disk.
C18_FilterFailureNotDone ==
    (cfg.mode = "date" /\ cfg.faults = "none"
     /\ currentScrapingDate # 0 /\ ~FilterOK(currentScrapingDate))
    => /\ pc # "done"
       /\ pc = "failed" => file.kind = "valid"

\* C19: in plain mode, on a challenge-free static catalog of
\* NumPages list pages and starting without a checkpoint, the run that has
\* reached Done holds every distinct link of the pages, and the checkpoint
\* shows pages_processed = NumPages.
C19_DoneWithFullCheckpoint ==
    (cfg = DefaultConfig /\ pc = "done" /\ runs = 0 /\ startedFresh
     /\ loaded.urls = {})
    => /\ collected = FullTraversal(cfg)
       /\ pagesProcessed = NumPages
       /\ file.kind = "valid" /\ file.pages = NumPages

\* C20: on an operator interrupt at any point of the traversal a final
\* checkpoint save is made before the process exits, and no write is left
\* in flight: once the process has exited, a load of the checkpoint on
\* disk yields what the process held when it was interrupted.
C20_InterruptSavesCheckpoint ==
    (pc = "interrupted" /\ cfg.faults = "none")
    => IF IsReport
       THEN LoadCheckpoint(rfile) = atKill.processed
       ELSE /\ LoadState(cfg, file).urls = atKill.urls
            /\ cfg.mode = "plain" => LoadState(cfg, file).pages = atKill.pages

\* C21: every transition to Failed is preceded by a final flush of the
\* checkpoint: when a link scraper has failed, the state file is the
\* document a save of its memory writes.
C21_FlushBeforeFailed ==
    (IsLink /\ pc = "failed" /\ cfg.faults = "none")
    => file = StateData(cfg, collected, pagesProcessed, lastProcessedDate,
                        currentScrapingDate)

\* C22: a persistence failure (the checkpoint, the output sheet or a record
\* file cannot be written) never terminates the run: after a failed write
\* the run is not Failed.
C22_WriteFailureNotFatal ==
    (cfg.faults = "io" /\ ioFails > 0) => pc # "failed"

\* The step of a challenge handler in which an alert mail is attempted.
AlertAttempted == alerts' = alerts + 1

\* C23: a failed delivery of the alert is swallowed: in the fixtures where
\* every delivery fails, the handler step that attempts the alert leaves the
\* notified flag set and goes on as after a successful send (to the prompt,
\* to the recovery click, or back to its caller with True); no failure
\* leaves the handler.
C23_DeliveryFailureSwallowed ==
    [][(cfg.mailFails /\ AlertAttempted)
       => /\ botNotified'
          /\ \/ pc' \in {"hbc_prompt", "hbc_click", "cbc_click", "cbc_prompt"}
             \/ stack # << >> /\ pc' = Head(stack) /\ ret']_vars

C23_Witness ==
    /\ cfg.mailFails /\ alerts > 0 /\ botNotified
    /\ pc \in {"hbc_prompt", "hbc_click", "cbc_click", "cbc_prompt"}

\* The pages the skip still has to pass when it starts: the distance from
\* the page the pagination element reports to the target, or the persisted
\* count when the element reports nothing.
PagesToSkip ==
    IF CurrentPageNumber # 0
    THEN Max(pagesProcessed + 1 - CurrentPageNumber, 0)
    ELSE pagesProcessed

\* C24: resume reconciliation is bounded.  With a persisted cursor N > 0,
\* _skip_processed_pages returns True at once when the page reported is at
\* or beyond N + 1; otherwise its budget is max(pages_to_skip + 3, 5), a
\* next-page advance is made only while the advances made are below the
\* budget, and it returns True when the page reported has reached the
\* target and False when the budget or the pages are exhausted.
C24_SkipBounded ==
    /\ [](cfg.mode = "plain" => attempts <= maxAttempts)
    /\ [][(cfg.mode = "plain" /\ pc' # pc /\ runs' = runs /\ pc' # "interrupted") =>
            /\ (pc = "spp_entry" /\ pagesProcessed > 0
                /\ CurrentPageNumber >= pagesProcessed + 1)
               => (pc' = Head(stack) /\ ret')
            /\ (pc = "spp_entry" /\ pc' = "spp_loop")
               => maxAttempts' = Max(PagesToSkip + 3, 5)
            /\ (pc = "spp_read" /\ pc' = "gnp_gate") => attempts < maxAttempts
            /\ (pc = "spp_read" /\ pc' = Head(stack))
               => (ret' /\ CurrentPageNumber >= target)
            /\ (pc \in {"spp_loop", "spp_after_gnp"} /\ pc' = Head(stack))
               => (~ret' /\ (attempts = maxAttempts \/ ~HasNextPage))]_vars

\* C25: _go_to_next_page returns true only when the next-page control
\* existed, was not marked disabled, the click succeeded, and the list was
\* observed re-rendered with the next page's content: at a true return the
\* control had a next page to go to and no re-render is still outstanding.
C25_TrueOnlyAfterRerender ==
    [][(IsLink /\ pc = "gnp_after_etl" /\ stack # << >> /\ pc' = Head(stack) /\ ret')
       => ~pendingNav]_vars

\* C26: when the next-page control does not exist or does not become
\* clickable within the wait timeout, _go_to_next_page returns false and the
\* traversal goes on to Done or to the next bucket; nothing is raised out of
\* run.
C26_MissingControlReturnsFalse ==
    /\ [][(IsLink /\ pc = "gnp_wait" /\ ~HasNextPage /\ cfg.lastButton = "absent"
           /\ runs' = runs /\ pc' # "interrupted")
          => (stack # << >> /\ pc' = Head(stack) /\ ~ret')]_vars
    /\ []((IsLink /\ cfg.lastButton = "absent") => pc # "failed")

\* C27: a next-page control that goes stale under the click counts as no
\* progress and the lookup is made again; the stale click never makes
\* _go_to_next_page report that there are no more pages.
C27_StaleClickRetried ==
    [][(IsLink /\ pc = "gnp_click" /\ stales' = stales + 1)
       => pc' \in {"gnp_gate", "gnp_wait"}]_vars

\* C28: bucket advance.  When the pages of a day are exhausted the cursor
\* moves to exactly the previous calendar day, the filter is applied again
\* with that day as From and To, and the list starts again at page 1; the
\* days a process visits go down by one, none skipped and none repeated.
C28_BucketAdvance ==
    [][(cfg.mode = "date" /\ pc' # pc /\ runs' = runs /\ pc' # "interrupted") =>
         /\ (pc = "gnp_wait" /\ ~HasNextPage) => (pc' = "run_after_gnp" /\ ~ret')
         /\ (pc = "run_after_gnp" /\ ~ret)
            => (currentDate' = currentDate - 1 /\ pc' = "run_day")
         /\ (currentScrapingDate' # currentScrapingDate)
            => /\ currentScrapingDate' = currentDate
               /\ currentScrapingDate = 0 \/ currentScrapingDate' = currentScrapingDate - 1
         /\ (filterDay' # filterDay) => (filterDay' = currentDate /\ livePage' = 1)]_vars

\* C29: the date-bucket iteration ends only when the date filter has failed
\* several times in a row.  The run ends nowhere but after a failed filter,
\* and one failure alone does not end it.  (run makes no second attempt, so
\* a failure it sees is always the first of its row.)
C29_EndsOnlyOnRepeatedFilterFailure ==
    /\ []((cfg.mode = "date" /\ pc \in {"run_final", "done"}) => ~FilterOK(currentDate))
    /\ [][(cfg.mode = "date" /\ pc = "run_after_adf" /\ ~ret
           /\ pc' # pc /\ runs' = runs /\ pc' # "interrupted")
          => pc' # "run_final"]_vars

\* C30: overlay discipline.  When the section extractors of an item have
\* returned (or one of them has raised), no overlay one of them opened is
\* still open: not the process detail panel, not the IOC modal, not the
\* MITRE matrix.
C30_OverlaysClosed ==
    [][(IsReport /\ pc = "sr_extract" /\ pc' # pc /\ runs' = runs /\ pc' # "interrupted")
       => overlays' = {}]_vars

\* C31: Blocked returns to the interrupted step.  After the wait for the
\* list table, timed out or not, _ensure_table_loaded repeats the same wait
\* when the handler dealt with a challenge; it leaves (returning, or raising
\* the timeout) only when the handler saw none and no challenge is present.
C31_WaitRepeatedAfterChallenge ==
    [][(IsLink /\ pc \in {"etl_ok_ret", "etl_timeout_ret"}
        /\ pc' # pc /\ runs' = runs /\ pc' # "interrupted")
       => /\ ret => pc' = "etl_wait"
          /\ (pc' # "etl_wait") => (~ret /\ ~challenge)]_vars

\* C40: plain scraper: the gate depends on the page only.  While an
\* indicator of a challenge is visible _handle_bot_challenge never answers
\* that there is none, whatever bot_check_selector is.
C40_GateIgnoresConfiguration ==
    [][(cfg.mode = "plain" /\ pc = "hbc_entry" /\ challenge
        /\ pc' # pc /\ runs' = runs /\ pc' # "interrupted")
       => ~(pc' = Head(stack) /\ ~ret')]_vars

C33_OnlyUnprocessedVisited ==
    /\ [][(IsReport /\ pc = "rr_load" /\ pc' # pc /\ runs' = runs /\ pc' # "interrupted")
          => /\ \A i \in 1..Len(toProcess') : toProcess'[i] \notin processed
             /\ (\A i \in 1..Len(Sheet(cfg)) : Sheet(cfg)[i] \in processed) => pc' = "done"]_vars
    /\ [][(IsReport /\ pc # "rr_load" /\ runs' = runs /\ pc' # "interrupted")
          => toProcess' = toProcess]_vars

\* Every URL of the sheet was in the checkpoint: the sheet was read, nothing
\* is left to do, and the run is over without a navigation.
C33_Witness ==
    /\ IsReport /\ runs = 0 /\ pc = "done" /\ urlIdx = 1 /\ toProcess = << >>
    /\ \A i \in 1..Len(Sheet(cfg)) : Sheet(cfg)[i] \in processed
    /\ lastAct = "other"

\* C34: for one challenge occurrence the handler makes a bounded number of
\* synthetic clicks and then only waits (prompt or poll interval) and probes
\* again.  Where the challenge never goes away there is one occurrence; the
\* notified flag is up from its first detection on, so a handler pass that
\* starts with the flag up comes after the clicks of an earlier pass and
\* makes no further click.
C34_ClicksBoundedPerOccurrence ==
    [][(cfg.chalMode = "always" /\ pc \in {"hbc_entry", "cbc_entry"} /\ botNotified)
       => pc' \notin {"hbc_click", "cbc_click"}]_vars

\* C35: date-bucket mode: when the persisted last_processed_date text fits
\* neither accepted format, the process constructed from that checkpoint
\* holds the checkpoint's links and no starting day, nothing is raised, and
\* its run starts the day loop at today.
C35_UnparsableDateStartsToday ==
    /\ []((cfg.mode = "date" /\ pc = "run_get" /\ file.kind = "valid"
           /\ file.lastDate.fmt = "bad")
          => /\ collected = file.urls
             /\ lastProcessedDate = file.lastDate
             /\ currentScrapingDate = 0)
    /\ []((cfg.mode = "date" /\ readKind = "valid" /\ loaded.lastDate.fmt = "bad")
          => pc # "crashed")
    /\ [][(cfg.mode = "date" /\ pc = "run_after_etl" /\ loaded.lastDate.fmt = "bad"
           /\ pc' # pc /\ runs' = runs /\ pc' # "interrupted")
          => currentDate' = Today]_vars

\* A run resumed from such a checkpoint is at the top of its day loop with
\* today as the day and the checkpoint's links in its set.
C35_Witness ==
    /\ cfg.mode = "date" /\ runs = 0 /\ loaded.lastDate.fmt = "bad"
    /\ loaded.urls # {} /\ loaded.urls \subseteq collected
    /\ pc = "run_day" /\ currentDate = Today

\* C36: after every normal return of a link scraper's run (pagination
\* exhausted, failed resume, failed date filter) the final results have
\* been saved and the checkpoint file is gone, so the next run starts from
\* the empty default.
C36_NoCheckpointAfterReturn ==
    (IsLink /\ pc = "done")
    => /\ file = AbsentFile
       /\ LoadState(cfg, file) = LoadState(cfg, AbsentFile)

C38_EachUrlScrapedOnce ==
    (IsReport /\ pc = "sr_get") => toProcess[urlIdx] \notin processed

\* The day a process constructed from the checkpoint starts its day loop at.
ResumeDay == IF currentScrapingDate # 0 THEN currentScrapingDate ELSE Today

\* C39: date-bucket mode: the checkpoint holds no page position.  A process
\* constructed from a checkpoint (here: one whose date text can be parsed)
\* starts at a day that is not later than the day that was being scanned
\* when the checkpoint was written, applies that day's filter and makes its
\* first scan on page 1 of it.
C39_ResumeAtDayStart ==
    /\ []((cfg.mode = "date" /\ pc = "run_get" /\ file.kind = "valid"
           /\ file.curDate # 0 /\ file.lastDate.fmt \in {"full", "dateonly"})
          => ResumeDay <= file.curDate)
    /\ []((cfg.mode = "date" /\ pc = "run_collect" /\ visited = {})
          => (livePage = 1 /\ filterDay = currentDate))

====
